---------------------------- MODULE Spec2Model ----------------------------
(***************************************************************************)
(* GestureCraft 3D: the App state (detectionResult, isDarkMode, shape),    *)
(* the Overlay gesture feed (gestureQueue and its auto-remove timer), the  *)
(* ReactiveMesh (target refs, pinch anchor, rotation, smoothed scale,      *)
(* position, color and roughness) and the GestureHandler (model load,      *)
(* camera start, the predictWebcam loop and what it makes of a result).    *)
(*                                                                         *)
(* Units.  Target values are in hundredths (scale 1.2 is 120, roughness    *)
(* 0.05 is 5).  Pinch coordinates are in tenths of the normalized image    *)
(* (0.5 is 5); rotation is in units of (PI * 3) / 10 radians, so that the  *)
(* code's  rotation.y += dx * rotationSensitivity  adds dx tenths.  Time   *)
(* is in milliseconds, as Date.now() and setTimeout count it.              *)
(***************************************************************************)
EXTENDS Integers, Sequences, FiniteSets, TLC

VARIABLES
    detectionResult,      \* App state: <<>> (null) or <<DetectionResult>>
    isDarkMode,           \* App state
    shape,                \* App state
    gestureQueue,         \* Overlay state: sequence of [id, type]
    timeout,              \* Overlay auto-remove timer: <<>> or <<deadline>>
    now,                  \* Date.now()
    target,               \* ReactiveMesh refs: scale, color, rotationSpeed, roughness
    lastPinchPosRef,      \* ReactiveMesh ref: <<>> (null) or <<[x, y]>>
    rotation,             \* meshRef.current.rotation: [x, y]
    stepTag,              \* history: what the last render step processed
    prevSeen,             \* history: anchor of the frame the last render step processed
    gap,                  \* history: a non-pinching frame was emitted since the last rendered pinch
    shapeDirty,           \* history: shape changed since the last render step
    runEnq,               \* history: entries enqueued during the current run of one label
    runStartDup,          \* history: the run began with its label already newest in the queue
    script,               \* history: progress along the end-to-end gesture sequence
    dropped,              \* history: the most recent enqueue dropped the oldest entry
    meshB,                \* a second ReactiveMesh with its own history: [gesture, isDarkMode, target]
    scale,                \* meshRef.current.scale (x = y = z)
    position,             \* meshRef.current.position: [x, y]
    color,                \* materialRef.current.color: [r, g, b]
    roughness,            \* materialRef.current.roughness
    steps,                \* history: render steps with delta > 0 taken so far
    lerpRun,              \* one interpolation run: [cur, prev, tgt, k, n]
    rawResult,            \* what recognizeForVideo returned: [landmarks, gestures, handedness]
    emitted,              \* what the try block of predictWebcam made of rawResult
    mounted,              \* GestureHandler is mounted: videoRef.current is the video element
    modelLoad,            \* the promise of initializeGestureRecognizer: pending, resolved, rejected
    recognizerRef,        \* recognizerRef.current is set
    isLoading,            \* GestureHandler state
    error,                \* GestureHandler state: <<>> (null) or <<message>>
    isCameraActive,       \* GestureHandler state
    starts,               \* history: calls of startCamera so far
    gumPending,           \* getUserMedia promises not yet settled
    metaPending,          \* loadedmetadata events not yet delivered
    playPending,          \* video.play() promises not yet settled
    refLive,              \* the callback whose id requestRef.current holds is pending
    orphans,              \* pending predictWebcam callbacks whose id requestRef no longer holds
    lastCycle             \* history: how the last predictWebcam callback ended

vars == <<detectionResult, isDarkMode, shape, gestureQueue, timeout, now, target,
          lastPinchPosRef, rotation, stepTag, prevSeen, gap, shapeDirty,
          runEnq, runStartDup, script, dropped, meshB,
          scale, position, color, roughness, steps, lerpRun, rawResult, emitted,
          mounted, modelLoad, recognizerRef, isLoading, error, isCameraActive, starts,
          gumPending, metaPending, playPending, refLive, orphans, lastCycle>>

overlayVars == <<gestureQueue, timeout, now, runEnq, runStartDup, script, dropped>>
pinchVars == <<lastPinchPosRef, rotation, stepTag, prevSeen, gap, shapeDirty>>
smoothVars == <<scale, position, color, roughness, steps>>
pureVars == <<lerpRun, rawResult, emitted>>
cameraVars == <<mounted, modelLoad, recognizerRef, isLoading, error, isCameraActive,
                starts, gumPending, metaPending, playPending>>
handlerVars == <<cameraVars, refLive, orphans, lastCycle>>
appVars == <<detectionResult, isDarkMode, shape, target, overlayVars, pinchVars, meshB,
             smoothVars, pureVars>>

---------------------------------------------------------------------------
(* Bounds of the model *)

MaxCoord == 1       \* pinch coordinates range over 0..MaxCoord tenths
MaxRot == 1         \* |rotation.x|, |rotation.y| <= MaxRot units
MaxTicks == 3       \* the clock advances MaxTicks times at most
MaxSteps == 3       \* render steps with delta > 0, and steps of one interpolation run
MaxStarts == 2      \* startCamera is called MaxStarts times at most

---------------------------------------------------------------------------
(* types.ts *)

GestureType == {"None", "Closed_Fist", "Open_Palm", "Pointing_Up", "Pointing_Down",
                "Victory", "Thumb_Up", "Thumb_Down"}

ShapeType == {"Icosahedron", "Torus", "Capsule"}

Coords == 0..MaxCoord

NoPinch == [isPinching |-> FALSE, x |-> 0, y |-> 0]

PinchState == {NoPinch} \cup [isPinching : {TRUE}, x : Coords, y : Coords]

\* The fields of DetectionResult that Overlay and ReactiveMesh read.
DetectionResult == [gesture : GestureType, pinchState : PinchState]

---------------------------------------------------------------------------
(* Overlay *)

TimerDelay == 2500

\* Overlay: detectionResult?.gesture || GestureType.None (ReactiveMesh: the same)
currentGesture(dr) == IF dr = <<>> THEN "None" ELSE dr[1].gesture

\* Overlay: detectionResult?.pinchState?.isPinching || false
isPinching(dr) == IF dr = <<>> THEN FALSE ELSE dr[1].pinchState.isPinching

\* prev.slice(-n)
sliceLast(prev, n) ==
    IF Len(prev) <= n THEN prev ELSE SubSeq(prev, Len(prev) - n + 1, Len(prev))

\* A feed updater that caps the queue at one entry more: prev.slice(-3).
feedUpdaterKeep3(prev, g, t) ==
    IF Len(prev) > 0 /\ prev[Len(prev)].type = g
    THEN prev
    ELSE sliceLast(prev, 3) \o <<[id |-> t, type |-> g]>>

\* The updater handed to setGestureQueue by the gesture feed effect.
feedUpdater(prev, g, t) ==
    IF Len(prev) > 0 /\ prev[Len(prev)].type = g
    THEN prev
    ELSE sliceLast(prev, 2) \o <<[id |-> t, type |-> g]>>

\* A gesture feed effect without its dependency array: it runs on every render.
feedEffectRunsAlways(old, g) == TRUE

\* The gesture feed effect runs when its dependency [currentGesture] changed.
feedEffectRuns(old, g) == g # old

\* gestureQueue after a render with gesture g, the previous render having old.
gestureFeed(prev, old, g, t) ==
    IF feedEffectRuns(old, g) /\ g # "None" THEN feedUpdater(prev, g, t) ELSE prev

\* An auto-remove effect with its condition inverted: it arms the timer for the
\* empty queue only.
autoRemoveEffectInverted(q, t) == IF Len(q) = 0 THEN <<t + TimerDelay>> ELSE <<>>

\* The auto-remove effect, run because gestureQueue changed: the cleanup clears
\* the pending timer, and a new one is set unless the queue is empty.
autoRemoveEffect(q, t) == IF Len(q) = 0 THEN <<>> ELSE <<t + TimerDelay>>

---------------------------------------------------------------------------
(* ReactiveMesh *)

\* The refs as useRef initialises them.
initialRefs == [scale |-> 100, color |-> "#ffffff", rotationSpeed |-> 50, roughness |-> 20]

\* The useMemo body: the switch over gesture, writing the target refs.
useMemo(g, dark, cur) ==
    CASE g = "Open_Palm" ->
           [scale |-> 200, color |-> IF dark THEN "#00f0ff" ELSE "#0066ff",
            rotationSpeed |-> 20, roughness |-> 5]
      [] g = "Closed_Fist" ->
           [scale |-> 60, color |-> IF dark THEN "#ff0055" ELSE "#cc0000",
            rotationSpeed |-> 0, roughness |-> 80]
      [] g = "Pointing_Up" ->
           [scale |-> 120, color |-> IF dark THEN "#cc00ff" ELSE "#8800cc",
            rotationSpeed |-> 100, roughness |-> 20]
      [] g = "Victory" ->
           [scale |-> 150, color |-> "#ffd700", rotationSpeed |-> 300, roughness |-> 0]
      [] g = "Thumb_Up" ->
           [scale |-> 130, color |-> "#00ff00", rotationSpeed |-> 100,
            roughness |-> cur.roughness]
      [] g = "Thumb_Down" ->
           [scale |-> 80, color |-> "#555555", rotationSpeed |-> 20,
            roughness |-> cur.roughness]
      [] OTHER ->
           [scale |-> 120, color |-> IF dark THEN "#ffffff" ELSE "#333333",
            rotationSpeed |-> 50, roughness |-> 30]

\* A useMemo whose dependency array names isDarkMode alone.
renderTargetsThemeOnly(oldG, oldDark, g, dark, cur) ==
    IF dark # oldDark THEN useMemo(g, dark, cur) ELSE cur

\* useMemo recomputes only when a dependency, [gesture, isDarkMode], changed.
renderTargets(oldG, oldDark, g, dark, cur) ==
    IF g # oldG \/ dark # oldDark THEN useMemo(g, dark, cur) ELSE cur

\* useFrame: targetY of the gesture-mode branch
targetY(g) == IF g = "Pointing_Up" THEN 200 ELSE IF g = "Pointing_Down" THEN -200 ELSE 0

Half == 5

\* An anchor that is not mirrored: { x: pinch.x, y: pinch.y }
anchorOfUnmirrored(p) == [x |-> p.x, y |-> p.y]

\* useFrame: the anchor of a pinching frame, { x: 0.5 - pinch.x, y: pinch.y }
anchorOf(p) == [x |-> Half - p.x, y |-> p.y]

\* useFrame: rotation after the pinch branch, given the recorded anchor
dragRotation(rot, last, a) ==
    IF last # <<>>
    THEN [x |-> rot.x - (a.y - last[1].y), y |-> rot.y + (a.x - last[1].x)]
    ELSE rot

\* A gesture-mode branch that forgets to clear the anchor.
idleAnchorKept(last) == last

\* useFrame: lastPinchPosRef after the gesture-mode branch
idleAnchor(last) == <<>>

\* A ReactiveMesh without the effect on [shape].
shapeEffectNone(last) == last

\* The effect on [shape]: lastPinchPosRef.current = null
shapeEffect(last) == <<>>

\* The render clock's delta is counted in sixteenths of a second.
DeltaDen == 16

\* Smoothed values are kept exact: one unit of a target (a hundredth; 1/255 of a
\* color channel) is Unit units of a smoothed value, so that MaxSteps successive
\* divisions by DeltaDen leave no remainder.
Unit == DeltaDen ^ MaxSteps

\* An interpolation that forgets delta: lerp(x, y, k).
lerpNoDelta(x, y, k, delta) == x + (y - x) * k

\* THREE.MathUtils.lerp(x, y, delta * k) = (1 - t) * x + t * y with t = delta * k
lerp(x, y, k, delta) == x + ((y - x) \div DeltaDen) * (k * delta)

\* new THREE.Color(hex): the three channels of the hex string.
Color(hex) ==
    LET ch == CASE hex = "#ffffff" -> <<255, 255, 255>>
                [] hex = "#cccccc" -> <<204, 204, 204>>
                [] hex = "#333333" -> <<51, 51, 51>>
                [] hex = "#00f0ff" -> <<0, 240, 255>>
                [] hex = "#0066ff" -> <<0, 102, 255>>
                [] hex = "#ff0055" -> <<255, 0, 85>>
                [] hex = "#cc0000" -> <<204, 0, 0>>
                [] hex = "#cc00ff" -> <<204, 0, 255>>
                [] hex = "#8800cc" -> <<136, 0, 204>>
                [] hex = "#ffd700" -> <<255, 215, 0>>
                [] hex = "#00ff00" -> <<0, 255, 0>>
                [] hex = "#555555" -> <<85, 85, 85>>
                [] hex = "#ff8800" -> <<255, 136, 0>>
    IN  [r |-> ch[1] * Unit, g |-> ch[2] * Unit, b |-> ch[3] * Unit]

\* Color.lerp(c, delta * k): channel by channel
colorLerp(cur, c, k, delta) ==
    [r |-> lerp(cur.r, c.r, k, delta),
     g |-> lerp(cur.g, c.g, k, delta),
     b |-> lerp(cur.b, c.b, k, delta)]

\* The material's color prop: color={isDarkMode ? "#ffffff" : "#cccccc"}
baseColor(dark) == Color(IF dark THEN "#ffffff" ELSE "#cccccc")

\* The material's roughness prop, roughness={0.2}, and the mesh's default scale
BaseRoughness == 20
BaseScale == 100

\* The factors of delta in the gesture-mode branch
ScaleRate == 3
PositionRate == 2
ColorRate == 5
RoughnessRate == 2

\* The factors of delta and the targets of the pinch branch
DragPositionRate == 15
DragScaleRate == 10
DragColorRate == 10
DragScale == 90
DragColor == "#ff8800"

\* A render step that waits for the first detection frame.
stepWaitsForFrame(dr) == dr # <<>>

\* useFrame is called on every rendered frame; its body runs when meshRef.current
\* is set, which it is from the mount on.  Nothing of the detection loop is read.
stepReady(dr) == TRUE

---------------------------------------------------------------------------
(* GestureHandler: what predictWebcam makes of one recognizer result *)

(***************************************************************************)
(* Landmark coordinates and the pinch position are in units of 1/2000 of   *)
(* the normalized image (0.08 is 160), the coordinates even, so that the   *)
(* midpoint of two landmarks is a whole number of units.  An optional      *)
(* field of the result is <<>> when absent and <<value>> when present.     *)
(* Of a hand, the number n of its points and the points 4 and 8 are kept;  *)
(* of a frame, the fields gesture, handedness and pinchState.              *)
(***************************************************************************)

\* 0.08 in units of 1/2000
PinchThreshold == 160

\* HAND_CONNECTIONS names the points 0..20.
HandPoints == 21

sq(a) == a * a

\* The square of Math.sqrt(Math.pow(thumbTip.x - indexTip.x, 2) + Math.pow(thumbTip.y - indexTip.y, 2))
distanceSq(thumbTip, indexTip) == sq(thumbTip.x - indexTip.x) + sq(thumbTip.y - indexTip.y)

\* A pinch detection whose threshold is inclusive: distance <= 0.08.
pinchOfInclusive(hand) ==
    IF distanceSq(hand.p4, hand.p8) <= sq(PinchThreshold)
    THEN [isPinching |-> TRUE,
          x |-> (hand.p4.x + hand.p8.x) \div 2,
          y |-> (hand.p4.y + hand.p8.y) \div 2]
    ELSE NoPinch

\* 2. Pinch Detection: distance < 0.08, compared as squares
pinchOf(hand) ==
    IF distanceSq(hand.p4, hand.p8) < sq(PinchThreshold)
    THEN [isPinching |-> TRUE,
          x |-> (hand.p4.x + hand.p8.x) \div 2,
          y |-> (hand.p4.y + hand.p8.y) \div 2]
    ELSE NoPinch

\* const landmarks = result.landmarks ? result.landmarks : []
landmarksOf(raw) == IF raw.landmarks = <<>> THEN <<>> ELSE raw.landmarks[1]

\* if (result.gestures && result.gestures.length > 0)
hasGestures(raw) == raw.gestures # <<>> /\ Len(raw.gestures[1]) > 0

\* if (result.handedness && result.handedness.length > 0)
hasHandedness(raw) == raw.handedness # <<>> /\ Len(raw.handedness[1]) > 0

\* The reads of a property of undefined, each a TypeError inside the try block:
\* topGesture.categoryName when gestures[0] is empty, handedness[0][0].displayName
\* when handedness[0] is empty, thumbTip.x or indexTip.x when the first hand has no
\* point 4 or 8, and p1.x or p2.x of the wireframe when it has fewer than 21 points.
throws(raw) ==
    \/ hasGestures(raw) /\ raw.gestures[1][1] = <<>>
    \/ hasGestures(raw) /\ hasHandedness(raw) /\ raw.handedness[1][1] = <<>>
    \/ Len(landmarksOf(raw)) > 0 /\ landmarksOf(raw)[1].n < HandPoints

Threw == <<"threw">>

\* The body of the try block after recognizeForVideo: the frame handed to
\* onDetection, or the exception caught at line 174.
ingest(raw) ==
    IF throws(raw)
    THEN Threw
    ELSE <<"frame",
           [gesture |-> IF hasGestures(raw)
                        THEN raw.gestures[1][1][1].categoryName
                        ELSE "None",
            handedness |-> IF hasGestures(raw) /\ hasHandedness(raw)
                           THEN raw.handedness[1][1][1].displayName
                           ELSE "Unknown",
            pinchState |-> IF Len(landmarksOf(raw)) > 0
                           THEN pinchOf(landmarksOf(raw)[1])
                           ELSE NoPinch]>>

---------------------------------------------------------------------------
(* Initial state: App, Overlay and ReactiveMesh after their first render *)

InitApp ==
    /\ detectionResult = <<>>
    /\ isDarkMode = TRUE
    /\ shape = "Icosahedron"
    /\ gestureQueue = <<>>
    /\ timeout = <<>>
    /\ now = 0
    /\ target = useMemo("None", TRUE, initialRefs)
    /\ lastPinchPosRef = <<>>
    /\ rotation = [x |-> 0, y |-> 0]
    /\ stepTag = "none"
    /\ prevSeen = <<>>
    /\ gap = TRUE
    /\ shapeDirty = FALSE
    /\ runEnq = 0
    /\ runStartDup = FALSE
    /\ script = 0
    /\ dropped = FALSE
    /\ meshB = [gesture |-> "None", isDarkMode |-> TRUE,
                target |-> useMemo("None", TRUE, initialRefs)]
    /\ scale = BaseScale * Unit
    /\ position = [x |-> 0, y |-> 0]
    /\ color = baseColor(TRUE)
    /\ roughness = BaseRoughness * Unit
    /\ steps = 0
    /\ mounted = TRUE
    /\ modelLoad = "pending"
    /\ recognizerRef = FALSE
    /\ isLoading = TRUE
    /\ error = <<>>
    /\ isCameraActive = FALSE
    /\ starts = 0
    /\ gumPending = 0
    /\ metaPending = 0
    /\ playPending = 0
    /\ refLive = FALSE
    /\ orphans = 0
    /\ lastCycle = "none"

\* No interpolation run is in progress.
NoRun == [cur |-> 0, prev |-> 0, tgt |-> 0, k |-> 0, n |-> 0]

\* No recognizer result is being processed.
NoResult == [landmarks |-> <<>>, gestures |-> <<>>, handedness |-> <<>>]
Idle == <<"idle">>

Init == InitApp /\ lerpRun = NoRun /\ rawResult = NoResult /\ emitted = Idle

---------------------------------------------------------------------------
(* Operations *)

\* The gesture sequence of the end-to-end property.
EndToEnd == <<"None", "Open_Palm", "Open_Palm", "Closed_Fist">>

HalfDelay == TimerDelay \div 2

\* onDetection(frame), which is App.handleDetection: it sets detectionResult; Overlay
\* and ReactiveMesh render with the new prop and their effects run.
onDetection(frame) ==
    LET old == currentGesture(detectionResult)
        g == frame.gesture
        q == gestureFeed(gestureQueue, old, g, now)
    IN  /\ detectionResult' = <<frame>>
        /\ target' = renderTargets(old, isDarkMode, g, isDarkMode, target)
        /\ gestureQueue' = q
        /\ timeout' = IF q # gestureQueue THEN autoRemoveEffect(q, now) ELSE timeout
        /\ gap' = IF frame.pinchState.isPinching THEN gap ELSE TRUE
        /\ runEnq' = LET n == (IF g # old THEN 0 ELSE runEnq)
                               + (IF q # gestureQueue THEN 1 ELSE 0)
                     IN  IF n > 2 THEN 2 ELSE n
        /\ runStartDup' = IF g # old
                          THEN Len(gestureQueue) > 0
                                 /\ gestureQueue[Len(gestureQueue)].type = g
                          ELSE runStartDup
        /\ script' = IF /\ script >= 0
                        /\ script < Len(EndToEnd)
                        /\ g = EndToEnd[script + 1]
                        /\ ~frame.pinchState.isPinching
                     THEN script + 1
                     ELSE -1
        /\ dropped' = IF q # gestureQueue THEN Len(gestureQueue) = 3 ELSE dropped
        /\ UNCHANGED <<isDarkMode, shape, now, lastPinchPosRef, rotation, stepTag,
                       prevSeen, shapeDirty, meshB, smoothVars, pureVars>>

\* A detection step: predictWebcam hands a frame to onDetection.
handleDetection(frame) == onDetection(frame) /\ UNCHANGED handlerVars

\* App.toggleTheme: isDarkMode flips, ReactiveMesh's useMemo runs again, and the
\* material's changed color prop is applied to the material: color.set(prop).
toggleTheme ==
    /\ isDarkMode' = ~isDarkMode
    /\ target' = renderTargets(currentGesture(detectionResult), isDarkMode,
                               currentGesture(detectionResult), ~isDarkMode, target)
    /\ color' = baseColor(~isDarkMode)
    /\ UNCHANGED <<detectionResult, shape, overlayVars, pinchVars, meshB,
                   scale, position, roughness, steps, pureVars, handlerVars>>

\* The auto-remove timer fires: setGestureQueue(prev => prev.slice(1)), and the
\* auto-remove effect runs for the new queue.
timerFires ==
    /\ IF timeout = <<>> THEN FALSE ELSE now >= timeout[1]
    /\ gestureQueue' = IF Len(gestureQueue) = 0 THEN <<>> ELSE Tail(gestureQueue)
    /\ timeout' = autoRemoveEffect(gestureQueue', now)
    /\ script' = -1
    /\ UNCHANGED <<detectionResult, isDarkMode, shape, now, target, runEnq,
                   runStartDup, dropped, pinchVars, meshB, smoothVars, pureVars, handlerVars>>

\* Time passes; a pending timer fires no later than its deadline.
tick ==
    /\ now < MaxTicks * HalfDelay
    /\ IF timeout = <<>> THEN TRUE ELSE now + HalfDelay <= timeout[1]
    /\ now' = now + HalfDelay
    /\ UNCHANGED <<detectionResult, isDarkMode, shape, gestureQueue, timeout, target,
                   runEnq, runStartDup, script, dropped, pinchVars, meshB,
                   smoothVars, pureVars, handlerVars>>

\* Time passes as in tick, and beyond the last tick of the clock for as long as a
\* timer is pending.
tickPending ==
    /\ now < MaxTicks * HalfDelay \/ timeout # <<>>
    /\ IF timeout = <<>> THEN TRUE ELSE now + HalfDelay <= timeout[1]
    /\ now' = now + HalfDelay
    /\ UNCHANGED <<detectionResult, isDarkMode, shape, gestureQueue, timeout, target,
                   runEnq, runStartDup, script, dropped, pinchVars, meshB,
                   smoothVars, pureVars, handlerVars>>

\* A detection step taken before the last tick of the clock.
handleDetectionEarly(frame) ==
    /\ now < MaxTicks * HalfDelay
    /\ handleDetection(frame)

\* One render step of ReactiveMesh's useFrame callback, delta sixteenths of a second
\* after the previous one: pinch tracking, rotation and smoothing.
useFrame(delta) ==
    LET pinching == isPinching(detectionResult)
        a == anchorOf(detectionResult[1].pinchState)
        rot == dragRotation(rotation, lastPinchPosRef, a)
        g == currentGesture(detectionResult)
    IN  /\ stepReady(detectionResult)
        /\ delta > 0 => steps < MaxSteps
        /\ steps' = IF delta > 0 THEN steps + 1 ELSE steps
        /\ IF pinching
           THEN /\ rot.x \in -MaxRot..MaxRot
                /\ rot.y \in -MaxRot..MaxRot
                /\ rotation' = rot
                /\ lastPinchPosRef' = <<a>>
                /\ prevSeen' = <<a>>
                /\ stepTag' = IF stepTag \in {"none", "idle"} THEN "pinchAfterIdle"
                              ELSE IF gap THEN "pinchAfterGap"
                              ELSE IF shapeDirty /\ prevSeen # <<a>>
                                   THEN "pinchAfterShapeMoved"
                              ELSE IF shapeDirty THEN "pinchAfterShape"
                              ELSE "pinchCont"
                /\ gap' = FALSE
                /\ position' = [x |-> lerp(position.x, 0, DragPositionRate, delta),
                                y |-> lerp(position.y, 0, DragPositionRate, delta)]
                /\ scale' = lerp(scale, DragScale * Unit, DragScaleRate, delta)
                /\ color' = colorLerp(color, Color(DragColor), DragColorRate, delta)
                /\ roughness' = roughness
           ELSE /\ rotation' = rotation
                /\ lastPinchPosRef' = idleAnchor(lastPinchPosRef)
                /\ prevSeen' = <<>>
                /\ stepTag' = "idle"
                /\ gap' = gap
                /\ scale' = lerp(scale, target.scale * Unit, ScaleRate, delta)
                /\ position' = [x |-> lerp(position.x, 0, PositionRate, delta),
                                y |-> lerp(position.y, targetY(g) * Unit,
                                           PositionRate, delta)]
                /\ color' = colorLerp(color, Color(target.color), ColorRate, delta)
                /\ roughness' = lerp(roughness, target.roughness * Unit,
                                     RoughnessRate, delta)
        /\ shapeDirty' = FALSE
        /\ UNCHANGED <<detectionResult, isDarkMode, shape, target, overlayVars, meshB,
                       pureVars, handlerVars>>

\* Overlay.onShapeChange = App.setShape: a different shape re-renders, and
\* ReactiveMesh's effect on [shape] runs.
onShapeChange(s) ==
    /\ s # shape
    /\ shape' = s
    /\ lastPinchPosRef' = shapeEffect(lastPinchPosRef)
    /\ shapeDirty' = TRUE
    /\ UNCHANGED <<detectionResult, isDarkMode, target, overlayVars, rotation,
                   stepTag, prevSeen, gap, meshB, smoothVars, pureVars, handlerVars>>

\* One step of an interpolation run: the value moves toward the run's target at
\* the run's rate, delta sixteenths of a second after the previous step.
lerpStep(delta) ==
    /\ lerpRun.n < MaxSteps
    /\ lerpRun' = [lerpRun EXCEPT !.prev = lerpRun.cur,
                                  !.cur = lerp(lerpRun.cur, lerpRun.tgt, lerpRun.k, delta),
                                  !.n = lerpRun.n + 1]
    /\ UNCHANGED <<detectionResult, isDarkMode, shape, target, overlayVars, pinchVars,
                   meshB, smoothVars, rawResult, emitted, handlerVars>>

\* The try block of predictWebcam, run on the recognizer's result.
tryBlock ==
    /\ emitted = Idle
    /\ emitted' = ingest(rawResult)
    /\ UNCHANGED <<detectionResult, isDarkMode, shape, target, overlayVars, pinchVars,
                   meshB, smoothVars, lerpRun, rawResult, handlerVars>>

---------------------------------------------------------------------------
(* GestureHandler: model load, camera start, detection loop, unmount *)

\* A guard that looks at the recognizer alone.
loopGuardRecognizerOnly(rec, video) == rec

\* predictWebcam goes on unless (!recognizerRef.current || !videoRef.current).
loopGuard(rec, video) == rec /\ video

\* A predictWebcam that requests the next callback inside the try block.
reschedulesInTry(outcome) == outcome # Threw

\* requestAnimationFrame(predictWebcam) follows the try/catch, whatever its outcome.
reschedules(outcome) == TRUE

\* requestRef.current = requestAnimationFrame(predictWebcam): the new callback is the
\* one requestRef holds; a pending one it held before stays pending.
request ==
    /\ refLive' = TRUE
    /\ orphans' = orphans + (IF refLive THEN 1 ELSE 0)

\* The setup effect: initializeGestureRecognizer() resolved.
setupResolves ==
    /\ modelLoad = "pending"
    /\ modelLoad' = "resolved"
    /\ recognizerRef' = (IF mounted THEN TRUE ELSE recognizerRef)
    /\ isLoading' = (IF mounted THEN FALSE ELSE isLoading)
    /\ UNCHANGED <<mounted, error, isCameraActive, starts, gumPending, metaPending,
                   playPending, refLive, orphans, lastCycle, appVars>>

\* The setup effect: initializeGestureRecognizer() rejected.
setupRejects ==
    /\ modelLoad = "pending"
    /\ modelLoad' = "rejected"
    /\ error' = (IF mounted THEN <<"Failed to load AI model. Please refresh.">> ELSE error)
    /\ isLoading' = (IF mounted THEN FALSE ELSE isLoading)
    /\ UNCHANGED <<mounted, recognizerRef, isCameraActive, starts, gumPending,
                   metaPending, playPending, refLive, orphans, lastCycle, appVars>>

\* A click on "Start Cam" or "Retry", which are shown while the camera is not active
\* and the model is not loading: startCamera up to its await of getUserMedia.
startCamera ==
    /\ mounted
    /\ ~isCameraActive
    /\ ~isLoading
    /\ starts < MaxStarts
    /\ starts' = starts + 1
    /\ error' = <<>>
    /\ gumPending' = gumPending + 1
    /\ UNCHANGED <<mounted, modelLoad, recognizerRef, isLoading, isCameraActive,
                   metaPending, playPending, refLive, orphans, lastCycle, appVars>>

\* getUserMedia resolved: the stream becomes the video's srcObject and the
\* onloadedmetadata handler is set.  After the unmount videoRef.current is null, the
\* assignment throws and the catch calls setError on the unmounted component.
getUserMediaResolves ==
    /\ gumPending > 0
    /\ gumPending' = gumPending - 1
    /\ metaPending' = (IF mounted THEN metaPending + 1 ELSE metaPending)
    /\ UNCHANGED <<mounted, modelLoad, recognizerRef, isLoading, error, isCameraActive,
                   starts, playPending, refLive, orphans, lastCycle, appVars>>

\* getUserMedia rejected: setError("Camera permission denied.")
getUserMediaRejects ==
    /\ gumPending > 0
    /\ gumPending' = gumPending - 1
    /\ error' = (IF mounted THEN <<"Camera permission denied.">> ELSE error)
    /\ UNCHANGED <<mounted, modelLoad, recognizerRef, isLoading, isCameraActive, starts,
                   metaPending, playPending, refLive, orphans, lastCycle, appVars>>

\* The video delivers loadedmetadata: the handler awaits videoRef.current?.play().
onloadedmetadata ==
    /\ metaPending > 0
    /\ metaPending' = metaPending - 1
    /\ playPending' = playPending + 1
    /\ UNCHANGED <<mounted, modelLoad, recognizerRef, isLoading, error, isCameraActive,
                   starts, gumPending, refLive, orphans, lastCycle, appVars>>

\* The await of play() returns (at once with undefined when videoRef.current is
\* null): setIsCameraActive(true) and the first predictWebcam callback is requested.
playResolves ==
    /\ playPending > 0
    /\ playPending' = playPending - 1
    /\ isCameraActive' = (IF mounted THEN TRUE ELSE isCameraActive)
    /\ request
    /\ UNCHANGED <<mounted, modelLoad, recognizerRef, isLoading, error, starts,
                   gumPending, metaPending, lastCycle, appVars>>

\* play() rejected: setError("Failed to start video stream.")
playRejects ==
    /\ playPending > 0
    /\ mounted
    /\ playPending' = playPending - 1
    /\ error' = <<"Failed to start video stream.">>
    /\ UNCHANGED <<mounted, modelLoad, recognizerRef, isLoading, isCameraActive, starts,
                   gumPending, metaPending, refLive, orphans, lastCycle, appVars>>

\* A pending predictWebcam callback runs: the one requestRef holds ("ref") or another
\* ("orphan").  Past the guard, the outcome is <<"skip">> when the video has no new
\* frame, <<"threw">> when recognizeForVideo or the rest of the try block throws,
\* and <<"frame", f>> when onDetection(f) is reached.
predictWebcam(which, outcome) ==
    /\ IF which = "ref" THEN refLive ELSE orphans > 0
    /\ IF loopGuard(recognizerRef, mounted)
       THEN /\ lastCycle' = outcome[1]
            /\ IF outcome[1] = "frame"
               THEN onDetection(outcome[2])
               ELSE UNCHANGED appVars
            /\ IF reschedules(outcome)
               THEN /\ refLive' = TRUE
                    /\ orphans' = (IF which = "ref" THEN orphans
                                   ELSE orphans - 1 + (IF refLive THEN 1 ELSE 0))
               ELSE /\ refLive' = (IF which = "ref" THEN FALSE ELSE refLive)
                    /\ orphans' = (IF which = "ref" THEN orphans ELSE orphans - 1)
       ELSE /\ lastCycle' = "bail"
            /\ refLive' = (IF which = "ref" THEN FALSE ELSE refLive)
            /\ orphans' = (IF which = "ref" THEN orphans ELSE orphans - 1)
            /\ UNCHANGED appVars
    /\ UNCHANGED cameraVars

\* GestureHandler unmounts: React sets videoRef.current to null, the setup effect's
\* cleanup clears its mounted flag, and the cleanup of the last effect cancels the
\* callback whose id requestRef.current holds.
unmount ==
    /\ mounted
    /\ mounted' = FALSE
    /\ refLive' = FALSE
    /\ UNCHANGED <<modelLoad, recognizerRef, isLoading, error, isCameraActive, starts,
                   gumPending, metaPending, playPending, orphans, lastCycle, appVars>>

\* A render of the second ReactiveMesh with props (g, dark).
renderMeshB(g, dark) ==
    /\ <<g, dark>> # <<meshB.gesture, meshB.isDarkMode>>
    /\ meshB' = [gesture |-> g, isDarkMode |-> dark,
                 target |-> renderTargets(meshB.gesture, meshB.isDarkMode, g, dark,
                                          meshB.target)]
    /\ UNCHANGED <<detectionResult, isDarkMode, shape, target, overlayVars, pinchVars,
                   smoothVars, pureVars, handlerVars>>

---------------------------------------------------------------------------
(* Specifications *)

\* Frames without a pinch, of every gesture.
GestureFrames == [gesture : GestureType, pinchState : {NoPinch}]

\* Frames with and without a pinch.  useFrame's pinch branch reads no gesture, so
\* the frames of the pinch pipeline carry the label None.
PinchGestures == {"None"}
PinchFrames == [gesture : PinchGestures, pinchState : PinchState]

\* The gesture pipeline: detection frames without a pinch feed the Overlay queue and
\* the target mapping, while the clock runs and the auto-remove timer fires.
Next ==
    \/ \E frame \in GestureFrames : handleDetection(frame)
    \/ toggleTheme
    \/ timerFires
    \/ tick

Spec == Init /\ [][Next]_vars

\* Pinch tracking reads no delta: the render steps of the pinch pipeline are taken
\* at delta 0, which leaves the smoothed values where they are.
StillDeltas == {0}
useFrameStill == \E delta \in StillDeltas : useFrame(delta)

\* The pinch pipeline: the detection loop and the render loop interleave freely.
NextMesh ==
    \/ \E frame \in PinchFrames : handleDetection(frame)
    \/ useFrameStill
    \/ \E s \in ShapeType : onShapeChange(s)

SpecMesh == Init /\ [][NextMesh]_vars

\* The pinch pipeline with all that might turn the mesh besides a drag: frames of a
\* gesture whose rotationSpeed target differs, and theme changes.
TurnFrames == PinchFrames \cup {[gesture |-> "Victory", pinchState |-> NoPinch]}

NextTurn ==
    \/ \E frame \in TurnFrames : handleDetection(frame)
    \/ useFrameStill
    \/ toggleTheme

SpecTurn == Init /\ [][NextTurn]_vars

\* Two ReactiveMesh instances, each with its own history of gestures and themes.
NextPure ==
    \/ \E frame \in GestureFrames : handleDetection(frame)
    \/ toggleTheme
    \/ \E g \in GestureType, dark \in BOOLEAN : renderMeshB(g, dark)

SpecPure == Init /\ [][NextPure]_vars

\* The smoothing pipeline: frames of three gestures, with and without a pinch at one
\* place, and render steps one sixteenth of a second apart.
SmoothGestures == {"None", "Open_Palm", "Pointing_Up"}
SmoothFrames == [gesture : SmoothGestures,
                 pinchState : {NoPinch, [isPinching |-> TRUE, x |-> 0, y |-> 0]}]
SmoothDeltas == {1}

NextSmooth ==
    \/ \E frame \in SmoothFrames : handleDetection(frame)
    \/ toggleTheme
    \/ \E delta \in SmoothDeltas : useFrame(delta)

SpecSmooth == Init /\ [][NextSmooth]_vars

\* Interpolation runs: every rate of useFrame, from and toward the values the scale
\* and position targets take, with a delta for which k * delta < 1 for every rate.
LerpRates == {PositionRate, ScaleRate, ColorRate, DragScaleRate, DragPositionRate}
LerpValues == {-200, 0, 90, 100, 200}
LerpDeltas == {1}

InitLerp ==
    /\ InitApp
    /\ rawResult = NoResult
    /\ emitted = Idle
    /\ lerpRun \in {[cur |-> c * Unit, prev |-> c * Unit, tgt |-> t * Unit, k |-> k, n |-> 0] :
                      c \in LerpValues, t \in LerpValues, k \in LerpRates}

NextLerp == \E delta \in LerpDeltas : lerpStep(delta)

SpecLerp == InitLerp /\ [][NextLerp]_vars

\* The detection loop and the render loop: the model loads or fails to, the camera is
\* started, callbacks run with every outcome, render steps are taken one sixteenth
\* of a second apart, and GestureHandler unmounts at any moment.
LoopFrames == {[gesture |-> "Open_Palm", pinchState |-> NoPinch],
               [gesture |-> "None", pinchState |-> [isPinching |-> TRUE, x |-> 0, y |-> 0]]}
Outcomes == {<<"skip">>, Threw} \cup {<<"frame", f>> : f \in LoopFrames}
Callbacks == {"ref", "orphan"}

NextLoop ==
    \/ setupResolves
    \/ setupRejects
    \/ startCamera
    \/ getUserMediaResolves
    \/ getUserMediaRejects
    \/ onloadedmetadata
    \/ playResolves
    \/ playRejects
    \/ \E which \in Callbacks, outcome \in Outcomes : predictWebcam(which, outcome)
    \/ unmount
    \/ \E delta \in SmoothDeltas : useFrame(delta)

SpecLoop == Init /\ [][NextLoop]_vars

\* The gesture feed with its timer left to run out: frames of three gestures arrive
\* until the last tick of the clock, after which time passes while a timer is
\* pending.  Time does not stand still while a timer is pending, and a timer whose
\* delay has passed is run by the event loop unless it is cleared first.
LiveGestures == {"None", "Open_Palm", "Closed_Fist"}
LiveFrames == [gesture : LiveGestures, pinchState : {NoPinch}]

NextLive ==
    \/ \E frame \in LiveFrames : handleDetectionEarly(frame)
    \/ timerFires
    \/ tickPending

SpecLive ==
    /\ Init
    /\ [][NextLive]_vars
    /\ WF_vars(timerFires)
    /\ WF_vars(tickPending)

\* Recognizer results.  The thumb tip is at one of four places and the index tip at
\* offsets around the threshold, 0.079, 0.08 and 0.081 along an axis and 0.048 by
\* 0.064, which is 0.08 across; z is the depth of the landmark.
ThumbCoords == {0, 20}
IndexCoords == {0, 96, 128, 158, 160, 162, 180}
DepthCoords == {0, 160}
Origin == [x |-> 0, y |-> 0, z |-> 0]

Hands ==
    [n : {HandPoints}, p4 : [x : ThumbCoords, y : ThumbCoords, z : {0}],
     p8 : [x : IndexCoords, y : IndexCoords, z : DepthCoords]]
    \cup [n : {0, 5, 9}, p4 : {Origin}, p8 : {Origin}]

\* The category names of the recognizer's canned gestures, and the category lists:
\* none for a hand, or one top category.
CategoryNames == {"None", "Closed_Fist", "Open_Palm", "Pointing_Up", "Thumb_Down",
                  "Thumb_Up", "Victory", "ILoveYou"}
HandednessNames == {"Left", "Right"}

RawResults ==
    [landmarks : {<<>>, << <<>> >>} \cup {<< <<h>> >> : h \in Hands},
     gestures : {<<>>, << <<>> >>, << << <<>> >> >>}
                  \cup {<< << <<[categoryName |-> c]>> >> >> : c \in CategoryNames},
     handedness : {<<>>, << <<>> >>, << << <<>> >> >>}
                    \cup {<< << <<[displayName |-> d]>> >> >> : d \in HandednessNames}]

InitIngest ==
    /\ InitApp
    /\ lerpRun = NoRun
    /\ rawResult \in RawResults
    /\ emitted = Idle

NextIngest == tryBlock

SpecIngest == InitIngest /\ [][NextIngest]_vars

---------------------------------------------------------------------------
(* Pinch tracking (SpecMesh) *)

\* The anchor useFrame computes from the frame it processes.
frameAnchor == anchorOf(detectionResult[1].pinchState)

\* C1: a render step that processes a pinching frame, when the previously executed
\* render step processed a non-pinching or null frame, records the anchor and leaves
\* rotation.x and rotation.y unchanged.
C1_FirstPinchStepZeroDelta ==
    [][ (useFrameStill /\ isPinching(detectionResult) /\ stepTag = "idle")
          => (rotation' = rotation /\ lastPinchPosRef' = <<frameAnchor>>) ]_vars

\* C1 witness: the last render step opened a pinch session after an idle step, the
\* anchor is recorded, and an earlier session had already rotated the mesh.
C1_Witness ==
    /\ stepTag = "pinchAfterIdle"
    /\ lastPinchPosRef # <<>>
    /\ rotation # [x |-> 0, y |-> 0]

\* C2: in every interleaving of detection and render steps, a render step that
\* processes a pinching frame after a non-pinching frame was emitted since the last
\* rendered pinch applies no rotation delta.
C2_NoDeltaAcrossSessions ==
    [][ (useFrameStill /\ isPinching(detectionResult) /\ gap) => rotation' = rotation ]_vars

\* C3: after the shape changed, the next render step that processes a pinching frame
\* applies no rotation delta and records the anchor afresh.
C3_ShapeChangeResetsAnchor ==
    [][ (useFrameStill /\ isPinching(detectionResult) /\ shapeDirty)
          => (rotation' = rotation /\ lastPinchPosRef' = <<frameAnchor>>) ]_vars

\* C3 witness: the last render step was the first after a shape change during an
\* uninterrupted pinch, and its anchor differs from the one of the step before.
C3_Witness ==
    /\ stepTag = "pinchAfterShapeMoved"
    /\ lastPinchPosRef = prevSeen

\* C22 (SpecTurn): a render step that processes a pinching frame while an anchor is
\* recorded adds -(x_now - x_prev) * 3 * PI to rotation.y and -(y_now - y_prev) * 3 * PI
\* to rotation.x, x and y being the pinch position of the frame and of the step
\* before; every other step (a gesture-mode step, the first step of a pinch, a frame
\* of any gesture, a theme change) leaves rotation unchanged, whatever the target
\* rotationSpeed.
C22_RotationOnlyByDrag ==
    [][ IF useFrameStill /\ isPinching(detectionResult) /\ lastPinchPosRef # <<>>
        THEN LET xNow == detectionResult[1].pinchState.x
                 yNow == detectionResult[1].pinchState.y
                 xPrev == Half - lastPinchPosRef[1].x
                 yPrev == lastPinchPosRef[1].y
             IN  /\ rotation'.y = rotation.y - (xNow - xPrev)
                 /\ rotation'.x = rotation.x - (yNow - yPrev)
        ELSE rotation' = rotation ]_vars

\* C22 witness: a drag has turned the mesh about both axes, in light theme, after a
\* Victory frame had set the rotationSpeed target to 3.
C22_Witness ==
    /\ stepTag = "pinchCont"
    /\ rotation.x # 0
    /\ rotation.y # 0
    /\ ~isDarkMode
    /\ gestureQueue # <<>>

---------------------------------------------------------------------------
(* Gesture history queue (Spec) *)

NoAdjacentDuplicates ==
    \A i \in 1..(Len(gestureQueue) - 1) : gestureQueue[i].type # gestureQueue[i + 1].type

\* C4 as stated: while a non-None label is held, exactly one entry has been enqueued
\* for it, and no two adjacent entries have the same type.
C4_ExactlyOnePerRun ==
    /\ currentGesture(detectionResult) # "None" => runEnq = 1
    /\ NoAdjacentDuplicates

\* C4 amended: while a non-None label is held, at most one entry has been enqueued for
\* it: one when the newest entry was of another type (or the queue empty) at the first
\* frame of the run, none when the newest entry already had that type; and no two
\* adjacent entries have the same type.
C4_AtMostOnePerRun ==
    /\ currentGesture(detectionResult) # "None"
         => runEnq = (IF runStartDup THEN 0 ELSE 1)
    /\ NoAdjacentDuplicates

\* C4 witness: the one entry of the held gesture has expired by the timer, the
\* gesture is still held and nothing was enqueued again.
C4_Witness ==
    /\ currentGesture(detectionResult) # "None"
    /\ runEnq = 1
    /\ gestureQueue = <<>>
    /\ now >= TimerDelay

\* C5: the queue never holds more than 3 entries, and an enqueue while 3 are present
\* removes exactly the oldest, keeps the other two in order and appends the new one.
C5_QueueBound ==
    [][ /\ Len(gestureQueue') <= 3
        /\ ( /\ Len(gestureQueue) = 3
             /\ \E frame \in GestureFrames : handleDetection(frame)
             /\ gestureQueue' # gestureQueue )
             => ( /\ Len(gestureQueue') = 3
                  /\ gestureQueue'[1] = gestureQueue[2]
                  /\ gestureQueue'[2] = gestureQueue[3]
                  /\ gestureQueue'[3] = [id |-> now,
                                         type |-> currentGesture(detectionResult')] )
      ]_vars

\* C5 witness: three entries are present and the most recent enqueue dropped the
\* oldest entry.
C5_Witness == Len(gestureQueue) = 3 /\ dropped

\* C6: no entry is in the queue longer than one timer period after its insertion
\* (an entry's id is Date.now() at its insertion).
C6_EntryLifetime ==
    \A i \in 1..Len(gestureQueue) : now - gestureQueue[i].id <= TimerDelay

\* C7: the entries present at the same time have pairwise distinct ids, increasing
\* with insertion order.
C7_IdsIncrease ==
    \A i, j \in 1..Len(gestureQueue) :
        i < j => gestureQueue[i].id < gestureQueue[j].id

---------------------------------------------------------------------------
(* Gesture-to-target mapping *)

\* C8 (SpecPure): two histories of gestures and themes that end in the same
\* (gesture, isDarkMode) have the same target scale, color, rotation speed and
\* roughness.
C8_PureMapping ==
    (currentGesture(detectionResult) = meshB.gesture /\ isDarkMode = meshB.isDarkMode)
        => target = meshB.target

\* The colors of the table, by name.
Purple == {"#cc00ff", "#8800cc"}
Green == {"#00ff00"}
Gray == {"#555555"}
Red == {"#ff0055", "#cc0000"}

\* C9 (Spec): the targets equal the row of the fixed table for every gesture, and the
\* vertical position target is +2 for Pointing_Up, -2 for Pointing_Down, 0 otherwise.
C9_TargetsMatchTable ==
    LET g == currentGesture(detectionResult)
        t == target
    IN  /\ g = "None" => t.scale = 120 /\ t.rotationSpeed = 50 /\ t.roughness = 30
        /\ g = "Open_Palm" => t.scale = 200 /\ t.rotationSpeed = 20 /\ t.roughness = 5
        /\ g = "Closed_Fist" => t.scale = 60 /\ t.rotationSpeed = 0 /\ t.roughness = 80
        /\ g \in {"Pointing_Up", "Pointing_Down"}
             => /\ t.scale = 120
                /\ t.color \in Purple
                /\ t.rotationSpeed = 100
                /\ t.roughness = 20
        /\ g = "Victory" => t.scale = 150 /\ t.rotationSpeed = 300 /\ t.roughness = 0
        /\ g = "Thumb_Up" => t.scale = 130 /\ t.color \in Green /\ t.rotationSpeed = 100
        /\ g = "Thumb_Down" => t.scale = 80 /\ t.color \in Gray /\ t.rotationSpeed = 20
        /\ targetY(g) = (IF g = "Pointing_Up" THEN 200
                         ELSE IF g = "Pointing_Down" THEN -200 ELSE 0)

\* C10 (Spec): after exactly the frames None, Open_Palm, Open_Palm, Closed_Fist,
\* without pinch and without a timer expiry, the queue holds Open_Palm then
\* Closed_Fist and the target is the Closed_Fist row.
C10_EndToEnd ==
    script = Len(EndToEnd)
        => /\ Len(gestureQueue) = 2
           /\ gestureQueue[1].type = "Open_Palm"
           /\ gestureQueue[2].type = "Closed_Fist"
           /\ target.scale = 60
           /\ target.color = (IF isDarkMode THEN "#ff0055" ELSE "#cc0000")
           /\ target.color \in Red
           /\ target.rotationSpeed = 0
           /\ target.roughness = 80

\* C10 witness: the whole sequence has been fed.
C10_Witness == script = Len(EndToEnd) /\ Len(gestureQueue) = 2

---------------------------------------------------------------------------
(* Frames made of recognizer results (SpecIngest) *)

\* The first hand of the result; read only where a hand is tracked.
firstHand == landmarksOf(rawResult)[1]
handTracked == Len(landmarksOf(rawResult)) > 0

\* The midpoint of landmarks 4 and 8 when pinching, and 0, 0 when not.
pinchPlace(p) ==
    IF p.isPinching
    THEN 2 * p.x = firstHand.p4.x + firstHand.p8.x /\ 2 * p.y = firstHand.p4.y + firstHand.p8.y
    ELSE p.x = 0 /\ p.y = 0

\* C11 as stated: in every emitted frame, isPinching holds exactly when a hand is
\* tracked and the Euclidean distance of the points {x, y, z} of landmarks 4 and 8 is
\* strictly below 0.08; the pinch position is their midpoint when pinching, 0 when not.
C11_PinchEuclidean ==
    emitted[1] = "frame"
        => LET p == emitted[2].pinchState
           IN  /\ p.isPinching
                     <=> ( /\ handTracked
                           /\ sq(firstHand.p4.x - firstHand.p8.x)
                                + sq(firstHand.p4.y - firstHand.p8.y)
                                + sq(firstHand.p4.z - firstHand.p8.z) < sq(PinchThreshold) )
               /\ pinchPlace(p)

\* C11 amended: in every emitted frame, isPinching holds exactly when a hand is
\* tracked and the distance of landmarks 4 and 8 in the image plane, over x and y
\* without z, is strictly below 0.08; the pinch position is their midpoint when
\* pinching, 0 when not.
C11_PinchPlanar ==
    emitted[1] = "frame"
        => LET p == emitted[2].pinchState
           IN  /\ p.isPinching
                     <=> ( /\ handTracked
                           /\ sq(firstHand.p4.x - firstHand.p8.x)
                                + sq(firstHand.p4.y - firstHand.p8.y) < sq(PinchThreshold) )
               /\ pinchPlace(p)

\* C11 witness: a frame that pinches with the tips 0.079 apart in the image and 0.08
\* apart in depth.
C11_Witness ==
    /\ emitted[1] = "frame"
    /\ emitted[2].pinchState.isPinching
    /\ distanceSq(firstHand.p4, firstHand.p8) = sq(158)
    /\ firstHand.p8.z - firstHand.p4.z = PinchThreshold

\* Landmarks absent, a first hand of fewer than 9 points, or a gestures list whose
\* first element is empty.
malformed ==
    \/ rawResult.landmarks = <<>>
    \/ handTracked /\ firstHand.n < 9
    \/ hasGestures(rawResult) /\ rawResult.gestures[1][1] = <<>>

\* C12: a malformed or missing result produces a frame with gesture None and
\* isPinching false.
C12_MalformedIsNoHand ==
    (emitted # Idle /\ malformed)
        => /\ emitted[1] = "frame"
           /\ emitted[2].gesture = "None"
           /\ ~emitted[2].pinchState.isPinching

\* C13: the gesture of every emitted frame is a member of GestureType, whatever
\* category name the recognizer returned.
C13_GestureInEnum == emitted[1] = "frame" => emitted[2].gesture \in GestureType

\* C14: the handedness of every emitted frame is the top-1 handedness label of the
\* result when it has one, and Unknown only when it has none, whether or not the
\* result has a gesture classification.
C14_HandednessExtracted ==
    emitted[1] = "frame"
        => emitted[2].handedness =
             (IF hasHandedness(rawResult) /\ rawResult.handedness[1][1] # <<>>
              THEN rawResult.handedness[1][1][1].displayName
              ELSE "Unknown")

---------------------------------------------------------------------------
(* Detection loop and render loop (SpecLoop) *)

\* A predictWebcam callback runs past its guard and its try block raises.
inferenceThrows ==
    /\ loopGuard(recognizerRef, mounted)
    /\ \E which \in Callbacks : predictWebcam(which, Threw)

\* A predictWebcam callback runs past its guard: an inference step.
inferenceStep ==
    /\ loopGuard(recognizerRef, mounted)
    /\ \E which \in Callbacks, outcome \in Outcomes : predictWebcam(which, outcome)

\* C15: when an inference step raises, no frame is emitted, the frame emitted before
\* and what Overlay and ReactiveMesh made of it stay as they were, and the next
\* predictWebcam callback is requested.
C15_ThrowSkipsFrame ==
    [][ inferenceThrows
          => /\ detectionResult' = detectionResult
             /\ target' = target
             /\ gestureQueue' = gestureQueue
             /\ lastPinchPosRef' = lastPinchPosRef
             /\ refLive' ]_vars

\* C15 witness: the last callback raised after a frame had been emitted, and the
\* next callback is pending.
C15_Witness ==
    /\ lastCycle = "threw"
    /\ detectionResult # <<>>
    /\ mounted
    /\ refLive

\* The scale the mesh is heading for: that of the pinch branch while the most recent
\* frame pinches, and else the scale of the row of that frame's gesture.
headedScale ==
    IF isPinching(detectionResult)
    THEN DragScale * Unit
    ELSE useMemo(currentGesture(detectionResult), isDarkMode, target).scale * Unit

\* The height the mesh is heading for: the centre while the most recent frame
\* pinches, and else the targetY of that frame's gesture.
headedY ==
    IF isPinching(detectionResult)
    THEN 0
    ELSE targetY(currentGesture(detectionResult)) * Unit

\* Value w is nearer to t than v on the same side of it, or both are t.
nearer(v, w, t) ==
    IF v = t THEN w = t
    ELSE IF v < t THEN v < w /\ w < t
    ELSE t < w /\ w < v

\* C16: in every state, whatever the detection loop is doing (not started, running,
\* failed on a frame, stalled or stopped), a render step can be taken; it reads the
\* most recently emitted frame and moves the scale and the height nearer to those
\* that frame asks for.
C16_RenderNeverWaits ==
    steps < MaxSteps
        => ENABLED ( /\ \E delta \in SmoothDeltas : useFrame(delta)
                     /\ nearer(scale, scale', headedScale)
                     /\ nearer(position.y, position'.y, headedY) )

\* C16 witness: the detection loop has stalled on the frame emitted last, and two
\* render steps have moved the scale since.
C16_Witness ==
    /\ lastCycle = "skip"
    /\ currentGesture(detectionResult) = "Open_Palm"
    /\ steps = 2
    /\ scale # BaseScale * Unit
    /\ scale < headedScale

\* C17: once GestureHandler is unmounted, no inference step runs and no frame is
\* emitted, whatever was pending at the unmount: callbacks, the model load,
\* getUserMedia, loadedmetadata or play() of one or more calls of startCamera.
C17_NoInferenceAfterUnmount ==
    [][ ~mounted => (~inferenceStep /\ detectionResult' = detectionResult) ]_vars

\* C17 witness: startCamera was called more than once, a callback that the unmount
\* did not cancel has run after it and returned at the guard, and another is pending.
C17_Witness ==
    /\ ~mounted
    /\ recognizerRef
    /\ starts > 1
    /\ lastCycle = "bail"
    /\ refLive \/ orphans > 0

\* C20: whenever the camera is active and GestureHandler is mounted, a predictWebcam
\* callback is pending.
C20_LoopAlive == (isCameraActive /\ mounted) => (refLive \/ orphans > 0)

---------------------------------------------------------------------------
(* The auto-remove timer (SpecLive) *)

\* The queue without its oldest entry.
withoutOldest(q) == IF q = <<>> THEN <<>> ELSE Tail(q)

\* A step that puts a new entry at the end of the queue.
enqueues ==
    /\ gestureQueue' # <<>>
    /\ gestureQueue' # gestureQueue
    /\ gestureQueue' # withoutOldest(gestureQueue)

---------------------------------------------------------------------------
(* Smoothing (SpecSmooth, SpecLerp) *)

\* One render step moved value v to w toward target t at rate k: w - v is the
\* fraction k * delta of t - v, and w is not t unless v was.
movedBy(v, w, t, k, delta) ==
    /\ DeltaDen * (w - v) = (t - v) * k * delta
    /\ v # t => w # t

\* C18 (SpecSmooth): a change of gesture, theme or mode changes none of scale,
\* position, color and roughness; a render step moves each toward its target by the
\* fraction k * delta of the remaining distance (gesture mode: 3 scale, 2 position,
\* 5 color, 2 roughness; manipulation mode: 15 position, 10 scale, 10 color) and
\* never assigns the target.
C18_OnlyRenderStepsMove ==
    [][ IF steps' # steps
        THEN \E delta \in SmoothDeltas :
               IF isPinching(detectionResult)
               THEN /\ movedBy(scale, scale', DragScale * Unit, 10, delta)
                    /\ movedBy(position.x, position'.x, 0, 15, delta)
                    /\ movedBy(position.y, position'.y, 0, 15, delta)
                    /\ movedBy(color.r, color'.r, Color(DragColor).r, 10, delta)
                    /\ movedBy(color.g, color'.g, Color(DragColor).g, 10, delta)
                    /\ movedBy(color.b, color'.b, Color(DragColor).b, 10, delta)
               ELSE /\ movedBy(scale, scale', target.scale * Unit, 3, delta)
                    /\ movedBy(position.x, position'.x, 0, 2, delta)
                    /\ movedBy(position.y, position'.y,
                               targetY(currentGesture(detectionResult)) * Unit, 2, delta)
                    /\ movedBy(color.r, color'.r, Color(target.color).r, 5, delta)
                    /\ movedBy(color.g, color'.g, Color(target.color).g, 5, delta)
                    /\ movedBy(color.b, color'.b, Color(target.color).b, 5, delta)
                    /\ movedBy(roughness, roughness', target.roughness * Unit, 2, delta)
        ELSE UNCHANGED <<scale, position, color, roughness>> ]_vars

\* C19 (SpecLerp): with a constant target and a constant delta, 0 < k * delta < 1,
\* every step of a run that is not at its target moves the value strictly toward the
\* target without reaching or crossing it, for each rate k in {2, 3, 5, 10, 15}.
C19_LerpApproaches ==
    (lerpRun.n > 0 /\ lerpRun.prev # lerpRun.tgt)
        => /\ lerpRun.prev < lerpRun.tgt
                 => (lerpRun.prev < lerpRun.cur /\ lerpRun.cur < lerpRun.tgt)
           /\ lerpRun.prev > lerpRun.tgt
                 => (lerpRun.tgt < lerpRun.cur /\ lerpRun.cur < lerpRun.prev)

\* C19 witness: a run at the greatest rate has taken all its steps from above its
\* target and is still away from it.
C19_Witness ==
    /\ lerpRun.n = MaxSteps
    /\ lerpRun.k = DragPositionRate
    /\ lerpRun.tgt < lerpRun.cur
    /\ lerpRun.cur < lerpRun.prev

=============================================================================
